---- MODULE Spec2Model ----
(***************************************************************************)
(* State-machine model of drivers/block/zram/zcomp_zstd.c: the zstd        *)
(* backend of zram.  The model covers the facade record (struct zstd_ctx), *)
(* the compression workspace, the process-wide per-CPU table of            *)
(* decompression slots (percpu_dctx) and the create / destroy / decompress *)
(* entry points, with allocation and engine-construction failures injected *)
(* at every step.                                                          *)
(*                                                                         *)
(* Heap objects are identified by allocation instance: the n-th workspace  *)
(* ever allocated is workspace n.  A pointer is the instance number, NULL  *)
(* is 0.  A released object keeps its entry (live = FALSE) so that stale    *)
(* pointers, leaks and repeated frees stay observable.                     *)
(***************************************************************************)
EXTENDS Integers, Sequences, FiniteSets, TLC

\* ---------------------------------------------------------------- bounds
NCPU == 2          \* number of possible CPUs (for_each_possible_cpu)
MaxCreate == 2     \* number of create calls explored in one behaviour
NThreads == 2      \* threads calling decompress concurrently
PAGE_SIZE == 2     \* bytes in a page

\* ------------------------------------------------------ program constants
NULL == 0
ENOMEM == 12
EINVAL == 22
ZRAM_ZSTD_LEVEL == 1

CPUS == 0 .. (NCPU - 1)
Tier == {"kzalloc", "vmalloc"}
THREADS == 1 .. NThreads

VARIABLES
  wk,           \* workspaces: Seq of [tier, use, size, zeroed, live, nfree]
  rec,          \* facade records (struct zstd_ctx): Seq of [live, cwksp, cctx]
  tab,          \* per-CPU tables: Seq of [live, slot: CPU -> [dwksp, dctx]]
  percpu_dctx,  \* the static table reference (NULL or a table)
  handles,      \* handles returned by create and not yet passed to destroy
  ncreate,      \* number of create calls made so far
  last,         \* the call that returned last: [op, arg, ret, pd0, fail]
  log,          \* what the last call did, in program order
  vfree_kz,     \* what this build's vfree does with a kzalloc'ed address
  serving,      \* the allocator tier that serves this run's workspaces
  wbound,       \* the codec's workspace bounds: [c, d] (bytes, in units)
  pc,           \* decompress threads: position inside zcomp_zstd_decompress
  tcpu,         \* decompress threads: the CPU the thread is running on
  tslot,        \* decompress threads: the CPU whose slot the thread holds
  orig,         \* the page whose compression succeeded last, and its instance
  dst,          \* the caller's buffer compress writes to
  dst_len,      \* the caller's *dst_len
  out,          \* the page buffer the caller hands to decompress (fresh
                \* after every compress)
  cc            \* the codec call of the last compress / decompress

lifecycle == <<wk, rec, tab, percpu_dctx, handles, ncreate, last, log>>
threads == <<pc, tcpu, tslot>>
io == <<orig, dst, dst_len, out, cc>>
vars == <<wk, rec, tab, percpu_dctx, handles, ncreate, last, log, vfree_kz,
          serving, wbound, pc, tcpu, tslot, orig, dst, dst_len, out, cc>>

\* The machine a call runs on: the heap and the static, with an empty log.
Machine == [wk |-> wk, rec |-> rec, tab |-> tab, pd |-> percpu_dctx, log |-> <<>>]

Event(ev, obj, id, fn, hit) ==
  [ev |-> ev, obj |-> obj, id |-> id, fn |-> fn, hit |-> hit]

Note(m, e) == [m EXCEPT !.log = Append(@, e)]

\* ------------------------------------------------------------ allocator
\* The injected environment of one create call: the step that fails, if any.
FailPoint ==
  [at : {"none", "kmalloc", "cwksp", "cctx", "percpu"}, cpu : {0}]
    \cup [at : {"dwksp", "dctx"}, cpu : CPUS]

\* The outcome of the two allocation attempts of one alloc_mem call: both
\* fail at the injected failure point; otherwise kzalloc succeeds unless the
\* run's memory is fragmented (serving = "vmalloc"), and __vmalloc succeeds.
KzallocOk(failing) == ~failing /\ serving = "kzalloc"
VmallocOk(failing) == ~failing

\* One allocation attempt of alloc_mem, as it appears in the log.
Try(m, use, fn, ok) == Note(m, Event("try", use, NULL, fn, IF ok THEN "ok" ELSE "fail"))

\* Variant of alloc_mem that calls __vmalloc whatever kzalloc returned:
\* C17 must not hold of it.
alloc_mem_both(m, use, size, kz, vm) ==
  LET p == Len(m.wk) + 1
      m2 == Try(Try(m, use, "kzalloc", kz), use, "vmalloc", vm)
      tier == IF vm THEN "vmalloc" ELSE "kzalloc"
      new == [tier |-> tier, use |-> use, size |-> size, zeroed |-> TRUE,
              live |-> TRUE, nfree |-> 0]
  IN IF kz \/ vm
       THEN [m |-> Note([m2 EXCEPT !.wk = Append(@, new)],
                        Event("alloc", use, p, tier, "ok")),
             ret |-> p]
       ELSE [m |-> Note(m2, Event("alloc", use, NULL, "alloc_mem", "fail")),
             ret |-> NULL]

\* kzalloc first; __vmalloc only when kzalloc returned NULL; NULL when both
\* fail.  The region is zeroed by either tier (kzalloc; __GFP_ZERO).
alloc_mem(m, use, size, kz, vm) ==
  LET p == Len(m.wk) + 1
      m1 == Try(m, use, "kzalloc", kz)
      m2 == IF ~kz THEN Try(m1, use, "vmalloc", vm) ELSE m1
      tier == IF kz THEN "kzalloc" ELSE "vmalloc"
      new == [tier |-> tier, use |-> use, size |-> size, zeroed |-> TRUE,
              live |-> TRUE, nfree |-> 0]
  IN IF kz \/ vm
       THEN [m |-> Note([m2 EXCEPT !.wk = Append(@, new)],
                        Event("alloc", use, p, tier, "ok")),
             ret |-> p]
       ELSE [m |-> Note(m2, Event("alloc", use, NULL, "alloc_mem", "fail")),
             ret |-> NULL]

\* A deallocator applied to a non-NULL workspace pointer.  kvfree picks the
\* deallocator of the tier; vfree is only valid for the vmalloc tier, and
\* what it does with a kzalloc'ed address is the build's (vfree_kz).
Release(m, p, fn) ==
  LET b == m.wk[p]
      hit == IF ~b.live THEN "stale"
             ELSE IF fn = "kvfree" \/ b.tier = "vmalloc" \/ vfree_kz = "release"
               THEN "released"
               ELSE "ignored"
      b2 == IF hit = "ignored" THEN b
            ELSE [b EXCEPT !.live = FALSE, !.nfree = @ + 1]
  IN Note([m EXCEPT !.wk[p] = b2], Event("free", b.use, p, fn, hit))

vfree(m, p) == IF p = NULL THEN m ELSE Release(m, p, "vfree")

kvfree(m, p) == IF p = NULL THEN m ELSE Release(m, p, "kvfree")

kfree(m, ctx) ==
  IF ctx = NULL THEN m
  ELSE Note([m EXCEPT !.rec[ctx].live = FALSE],
            Event("free", "ctx", ctx, "kfree",
                  IF m.rec[ctx].live THEN "released" ELSE "stale"))

free_percpu(m, t) ==
  IF t = NULL THEN m
  ELSE Note([m EXCEPT !.tab[t].live = FALSE],
            Event("free", "table", t, "free_percpu",
                  IF m.tab[t].live THEN "released" ELSE "stale"))

SetPercpu(m, t) ==
  Note([m EXCEPT !.pd = t], Event("store", "percpu_dctx", t, "assign", "ok"))

Return(m, fn, ret) ==
  [m |-> Note(m, Event("ret", fn, ret, fn, IF ret = 0 THEN "ok" ELSE "fail")),
   ret |-> ret]

\* ------------------------------------------------------------- creation
\* The sizes of workspaces a given build of the codec asks for.
WkspSizes == {1, 2}

\* ZSTD_getParams(ZRAM_ZSTD_LEVEL, PAGE_SIZE, 0).
zstd_params == [level |-> ZRAM_ZSTD_LEVEL, srcSize |-> PAGE_SIZE, dictSize |-> 0]

\* The codec's workspace bounds: pure functions of the build, wbound.
ZSTD_CCtxWorkspaceBound(cParams) == wbound.c
ZSTD_DCtxWorkspaceBound == wbound.d

\* ZSTD_initCCtx / ZSTD_initDCtx build the handle inside the workspace.
InitHandle(m, obj, wksp, fn, ok) ==
  Note(m, Event("init", obj, wksp, fn, IF ok THEN "ok" ELSE "fail"))

zstd_comp_init(m, ctx, p) ==
  LET failing == p.at = "cwksp"
      params == zstd_params
      wksp_size == ZSTD_CCtxWorkspaceBound(params)
      Store(a) == [a.m EXCEPT !.rec[ctx].cwksp = a.ret]
      Checked(m1) ==
        IF m1.rec[ctx].cwksp = NULL
          THEN Return(m1, "zstd_comp_init", -ENOMEM)
          ELSE LET ok == p.at # "cctx"
                   m2 == [InitHandle(m1, "cctx", m1.rec[ctx].cwksp, "ZSTD_initCCtx", ok)
                            EXCEPT !.rec[ctx].cctx = IF ok THEN "ok" ELSE "NULL"]
               IN IF m2.rec[ctx].cctx = "NULL"
                    THEN Return(vfree(m2, m2.rec[ctx].cwksp), "zstd_comp_init", -EINVAL)
                    ELSE Return(m2, "zstd_comp_init", 0)
  IN Checked(Store(alloc_mem(m, "cwksp", wksp_size,
                             KzallocOk(failing), VmallocOk(failing))))

\* Variant of zstd_decomp_init that does not test the handle ZSTD_initDCtx
\* returned: C7 must not hold of it.
zstd_decomp_init_nocheck(m, t, cpu, p) ==
  LET failing == p.at = "dwksp" /\ p.cpu = cpu
      wksp_size == ZSTD_DCtxWorkspaceBound
      Store(a) == [a.m EXCEPT !.tab[t].slot[cpu].dwksp = a.ret]
      Checked(m1) ==
        IF m1.tab[t].slot[cpu].dwksp = NULL
          THEN Return(m1, "zstd_decomp_init", -ENOMEM)
          ELSE LET ok == ~(p.at = "dctx" /\ p.cpu = cpu)
                   m2 == [InitHandle(m1, "dctx", m1.tab[t].slot[cpu].dwksp,
                                     "ZSTD_initDCtx", ok)
                            EXCEPT !.tab[t].slot[cpu].dctx = IF ok THEN "ok" ELSE "NULL"]
               IN Return(m2, "zstd_decomp_init", 0)
  IN Checked(Store(alloc_mem(m, "dwksp", wksp_size,
                             KzallocOk(failing), VmallocOk(failing))))

\* Variant of zstd_decomp_init whose workspace size depends on the CPU:
\* C14 must not hold of it.
zstd_decomp_init_cpusize(m, t, cpu, p) ==
  LET failing == p.at = "dwksp" /\ p.cpu = cpu
      wksp_size == ZSTD_DCtxWorkspaceBound + cpu
      Store(a) == [a.m EXCEPT !.tab[t].slot[cpu].dwksp = a.ret]
      Checked(m1) ==
        IF m1.tab[t].slot[cpu].dwksp = NULL
          THEN Return(m1, "zstd_decomp_init", -ENOMEM)
          ELSE LET ok == ~(p.at = "dctx" /\ p.cpu = cpu)
                   m2 == [InitHandle(m1, "dctx", m1.tab[t].slot[cpu].dwksp,
                                     "ZSTD_initDCtx", ok)
                            EXCEPT !.tab[t].slot[cpu].dctx = IF ok THEN "ok" ELSE "NULL"]
               IN IF m2.tab[t].slot[cpu].dctx = "NULL"
                    THEN Return(vfree(m2, m2.tab[t].slot[cpu].dwksp),
                                "zstd_decomp_init", -EINVAL)
                    ELSE Return(m2, "zstd_decomp_init", 0)
  IN Checked(Store(alloc_mem(m, "dwksp", wksp_size,
                             KzallocOk(failing), VmallocOk(failing))))

zstd_decomp_init(m, t, cpu, p) ==
  LET failing == p.at = "dwksp" /\ p.cpu = cpu
      wksp_size == ZSTD_DCtxWorkspaceBound
      Store(a) == [a.m EXCEPT !.tab[t].slot[cpu].dwksp = a.ret]
      Checked(m1) ==
        IF m1.tab[t].slot[cpu].dwksp = NULL
          THEN Return(m1, "zstd_decomp_init", -ENOMEM)
          ELSE LET ok == ~(p.at = "dctx" /\ p.cpu = cpu)
                   m2 == [InitHandle(m1, "dctx", m1.tab[t].slot[cpu].dwksp,
                                     "ZSTD_initDCtx", ok)
                            EXCEPT !.tab[t].slot[cpu].dctx = IF ok THEN "ok" ELSE "NULL"]
               IN IF m2.tab[t].slot[cpu].dctx = "NULL"
                    THEN Return(vfree(m2, m2.tab[t].slot[cpu].dwksp),
                                "zstd_decomp_init", -EINVAL)
                    ELSE Return(m2, "zstd_decomp_init", 0)
  IN Checked(Store(alloc_mem(m, "dwksp", wksp_size,
                             KzallocOk(failing), VmallocOk(failing))))

\* The first loop of zcomp_zstd_create_percpu, from CPU cpu on: stops at the
\* first slot whose initialization fails.
RECURSIVE InitSlots(_, _, _, _)
InitSlots(m, t, cpu, p) ==
  IF cpu \notin CPUS THEN [m |-> m, ret |-> 0]
  ELSE LET Continue(r) == IF r.ret # 0 THEN r ELSE InitSlots(r.m, t, cpu + 1, p)
       IN Continue(zstd_decomp_init(m, t, cpu, p))

\* The loop under the failure label, from CPU cpu on: vfree of every
\* possible CPU's dwksp.
RECURSIVE RollbackSlots(_, _, _)
RollbackSlots(m, t, cpu) ==
  IF cpu \notin CPUS THEN m
  ELSE RollbackSlots(vfree(m, m.tab[t].slot[cpu].dwksp), t, cpu + 1)

\* alloc_percpu returns zeroed per-CPU memory.
ZeroTable == [live |-> TRUE, slot |-> [c \in CPUS |-> [dwksp |-> NULL, dctx |-> "NULL"]]]

zcomp_zstd_create_percpu(m, p) ==
  IF p.at = "percpu"
    THEN Return(SetPercpu(Note(m, Event("alloc", "table", NULL, "alloc_percpu", "fail")),
                          NULL),
                "zcomp_zstd_create_percpu", -ENOMEM)
    ELSE LET t == Len(m.tab) + 1
             Slots(m1) == InitSlots(m1, m1.pd, 0, p)
             Finish(r) ==
               IF r.ret # 0
                 THEN Return(RollbackSlots(r.m, r.m.pd, 0),
                             "zcomp_zstd_create_percpu", r.ret)
                 ELSE Return(r.m, "zcomp_zstd_create_percpu", 0)
         IN Finish(Slots(SetPercpu(Note([m EXCEPT !.tab = Append(@, ZeroTable)],
                                        Event("alloc", "table", t, "alloc_percpu", "ok")),
                                   t)))

\* kmalloc does not zero the record: both fields start uninitialized.
FreshRecord == [live |-> TRUE, cwksp |-> "uninit", cctx |-> "uninit"]

\* Variant of zcomp_zstd_create that does not test what
\* zcomp_zstd_create_percpu returned: C6 must not hold of it.
zcomp_zstd_create_unchecked(m, p) ==
  IF p.at = "kmalloc"
    THEN [m |-> Note(m, Event("alloc", "ctx", NULL, "kmalloc", "fail")), ret |-> NULL]
    ELSE LET ctx == Len(m.rec) + 1
             m1 == Note([m EXCEPT !.rec = Append(@, FreshRecord)],
                        Event("alloc", "ctx", ctx, "kmalloc", "ok"))
             Pool(c) ==
               IF c.ret # 0
                 THEN [m |-> kvfree(c.m, c.m.rec[ctx].cwksp), ret |-> NULL]
                 ELSE [m |-> zcomp_zstd_create_percpu(c.m, p).m, ret |-> ctx]
         IN Pool(zstd_comp_init(m1, ctx, p))

\* Variant of zcomp_zstd_create without the jump to failed after
\* zstd_comp_init: C15 must not hold of it.
zcomp_zstd_create_nojump(m, p) ==
  IF p.at = "kmalloc"
    THEN [m |-> Note(m, Event("alloc", "ctx", NULL, "kmalloc", "fail")), ret |-> NULL]
    ELSE LET ctx == Len(m.rec) + 1
             m1 == Note([m EXCEPT !.rec = Append(@, FreshRecord)],
                        Event("alloc", "ctx", ctx, "kmalloc", "ok"))
             Finish(c, d) ==
               IF c.ret # 0 \/ d.ret # 0
                 THEN [m |-> kvfree(d.m, d.m.rec[ctx].cwksp), ret |-> NULL]
                 ELSE [m |-> d.m, ret |-> ctx]
             Pool(c) == Finish(c, zcomp_zstd_create_percpu(c.m, p))
         IN Pool(zstd_comp_init(m1, ctx, p))

zcomp_zstd_create(m, p) ==
  IF p.at = "kmalloc"
    THEN [m |-> Note(m, Event("alloc", "ctx", NULL, "kmalloc", "fail")), ret |-> NULL]
    ELSE LET ctx == Len(m.rec) + 1
             m1 == Note([m EXCEPT !.rec = Append(@, FreshRecord)],
                        Event("alloc", "ctx", ctx, "kmalloc", "ok"))
             Finish(d) ==
               IF d.ret # 0
                 THEN [m |-> kvfree(d.m, d.m.rec[ctx].cwksp), ret |-> NULL]
                 ELSE [m |-> d.m, ret |-> ctx]
             Pool(c) ==
               IF c.ret # 0
                 THEN [m |-> kvfree(c.m, c.m.rec[ctx].cwksp), ret |-> NULL]
                 ELSE Finish(zcomp_zstd_create_percpu(c.m, p))
         IN Pool(zstd_comp_init(m1, ctx, p))

\* ---------------------------------------------------------- destruction
RECURSIVE DestroySlots(_, _, _)
DestroySlots(m, t, cpu) ==
  IF cpu \notin CPUS THEN m
  ELSE DestroySlots(vfree(m, m.tab[t].slot[cpu].dwksp), t, cpu + 1)

\* Variant of the pool part of destroy without the test of percpu_dctx: with
\* no table it dereferences per_cpu_ptr(NULL, cpu).  C9 must not hold of it.
destroy_percpu_unguarded(m) ==
  IF m.pd # NULL
    THEN SetPercpu(free_percpu(DestroySlots(m, m.pd, 0), m.pd), NULL)
    ELSE SetPercpu(Note(m, Event("deref", "table", NULL, "per_cpu_ptr", "garbage")),
                   NULL)

\* The pool part of zcomp_zstd_destroy.
destroy_percpu(m) ==
  IF m.pd # NULL
    THEN SetPercpu(free_percpu(DestroySlots(m, m.pd, 0), m.pd), NULL)
    ELSE m

\* A read of a field of the facade record.
Load(m, ctx, field) ==
  Note(m, Event("load", "ctx", ctx, field, IF m.rec[ctx].live THEN "ok" ELSE "stale"))

\* Variant of zcomp_zstd_destroy that frees the record first: C16 must not
\* hold of it.
zcomp_zstd_destroy_record_first(m, private) ==
  LET ctx == private
      m0 == kfree(m, ctx)
      m1 == IF ctx # NULL THEN kvfree(Load(m0, ctx, "cwksp"), m0.rec[ctx].cwksp) ELSE m0
  IN destroy_percpu(m1)

zcomp_zstd_destroy(m, private) ==
  LET ctx == private
      m1 == IF ctx # NULL THEN kvfree(Load(m, ctx, "cwksp"), m.rec[ctx].cwksp) ELSE m
      m2 == destroy_percpu(m1)
  IN kfree(m2, ctx)

\* ---------------------------------------------------------------- codec
\* The codec is an external collaborator: given a handle it compresses or
\* decompresses a block and returns a length or an error code.  It is
\* modelled by a small framed format: <<1, n, b>> for n equal bytes b,
\* <<0, n>> followed by the n bytes otherwise.  A size_t result is a
\* length (>= 0) or the negated error code.
Byte == {0, 1}
Pages == [1 .. PAGE_SIZE -> Byte]

ZSTD_ERROR(name) ==
  CASE name = "GENERIC" -> -1
    [] name = "corruption_detected" -> -2
    [] name = "dstSize_tooSmall" -> -3
    [] name = "srcSize_wrong" -> -4

ZSTD_isError(code) == IF code < 0 THEN 1 ELSE 0

Failed(name) == [r |-> ZSTD_ERROR(name), bytes |-> <<>>]

Frame(src, srcSize) ==
  IF \A i \in 1 .. srcSize : src[i] = src[1]
    THEN <<1, srcSize, src[1]>>
    ELSE <<0, srcSize>> \o SubSeq(src, 1, srcSize)

\* internal: an error inside the codec (injected).
ZSTD_compressCCtx(cctx, dstCapacity, src, srcSize, params, internal) ==
  IF internal \/ cctx # "ok" THEN Failed("GENERIC")
  ELSE IF srcSize < 1 \/ srcSize > Len(src) THEN Failed("srcSize_wrong")
  ELSE IF Len(Frame(src, srcSize)) > dstCapacity THEN Failed("dstSize_tooSmall")
  ELSE [r |-> Len(Frame(src, srcSize)), bytes |-> Frame(src, srcSize)]

ZSTD_decompressDCtx(dctx, dstCapacity, src, srcSize) ==
  IF dctx # "ok" THEN Failed("GENERIC")
  ELSE IF srcSize < 2 \/ srcSize > Len(src) THEN Failed("srcSize_wrong")
  ELSE IF src[1] = 1
    THEN IF srcSize # 3 THEN Failed("corruption_detected")
         ELSE IF src[2] > dstCapacity THEN Failed("dstSize_tooSmall")
         ELSE [r |-> src[2], bytes |-> [i \in 1 .. src[2] |-> src[3]]]
  ELSE IF src[1] = 0
    THEN IF srcSize # src[2] + 2 THEN Failed("corruption_detected")
         ELSE IF src[2] > dstCapacity THEN Failed("dstSize_tooSmall")
         ELSE [r |-> src[2], bytes |-> SubSeq(src, 3, srcSize)]
  ELSE Failed("corruption_detected")

\* The codec call of a compress or decompress, as the caller can observe
\* it: the arguments, the result, the number of calls.
Call(fn, cap, srcSize, r) ==
  [fn |-> fn, cap |-> cap, srcSize |-> srcSize, r |-> r, calls |-> 1]

NoPage == [page |-> <<>>, h |-> NULL]

NoCall == [fn |-> "none", cap |-> 0, srcSize |-> 0, r |-> 0, calls |-> 0]

\* -------------------------------------------------- compress, decompress
\* Variant: *dst_len is stored before the result is tested.
zcomp_zstd_compress_store_first(src, dst0, len0, private, internal) ==
  LET ctx == private
      res == ZSTD_compressCCtx(rec[ctx].cctx, 2 * PAGE_SIZE, src, PAGE_SIZE,
                               zstd_params, internal)
      len == res.r
  IN [ret |-> IF ZSTD_isError(len) # 0 THEN ZSTD_isError(len) ELSE 0,
      dst |-> res.bytes, dst_len |-> len,
      call |-> Call("ZSTD_compressCCtx", 2 * PAGE_SIZE, PAGE_SIZE, len)]

\* Variant: the codec is told the output buffer holds three pages.
zcomp_zstd_compress_three_pages(src, dst0, len0, private, internal) ==
  LET ctx == private
      res == ZSTD_compressCCtx(rec[ctx].cctx, 3 * PAGE_SIZE, src, PAGE_SIZE,
                               zstd_params, internal)
      len == res.r
  IN [ret |-> IF ZSTD_isError(len) # 0 THEN ZSTD_isError(len) ELSE 0,
      dst |-> res.bytes,
      dst_len |-> IF ZSTD_isError(len) # 0 THEN len0 ELSE len,
      call |-> Call("ZSTD_compressCCtx", 3 * PAGE_SIZE, PAGE_SIZE, len)]

zcomp_zstd_compress(src, dst0, len0, private, internal) ==
  LET ctx == private
      params == zstd_params
      res == ZSTD_compressCCtx(rec[ctx].cctx, 2 * PAGE_SIZE, src, PAGE_SIZE,
                               params, internal)
      len == res.r
      call == Call("ZSTD_compressCCtx", 2 * PAGE_SIZE, PAGE_SIZE, len)
  IN IF ZSTD_isError(len) # 0
       THEN [ret |-> ZSTD_isError(len), dst |-> res.bytes, dst_len |-> len0,
             call |-> call]
       ELSE [ret |-> 0, dst |-> res.bytes, dst_len |-> len, call |-> call]

\* this_cpu_ptr(percpu_dctx) evaluated on CPU cpu: a pointer to that CPU's
\* slot of the table the static refers to at that moment.
this_cpu_ptr(pd, cpu) == [tab |-> pd, cpu |-> cpu]

\* The slot pointer refers to a live table's slot whose workspace is
\* allocated and whose handle was constructed.
SlotUsable(ptr) ==
  /\ ptr.tab # NULL
  /\ tab[ptr.tab].live
  /\ tab[ptr.tab].slot[ptr.cpu].dwksp # NULL
  /\ wk[tab[ptr.tab].slot[ptr.cpu].dwksp].live
  /\ tab[ptr.tab].slot[ptr.cpu].dctx = "ok"

\* What a codec call through a pointer to no slot, to a slot without a
\* handle or to freed memory may return: an error, or success with a page
\* of whatever bytes (here: all of one value).
Undefined == {Failed("GENERIC")}
               \cup {[r |-> PAGE_SIZE, bytes |-> [i \in 1 .. PAGE_SIZE |-> b]] : b \in Byte}

\* The outcomes to choose from on CPU cpu: none when its slot is usable.
Outcomes(cpu) ==
  IF SlotUsable(this_cpu_ptr(percpu_dctx, cpu)) THEN {Failed("GENERIC")} ELSE Undefined

\* undef: the outcome of the codec call when the slot is not usable.
zcomp_zstd_decompress(src, src_len, cpu, undef) ==
  LET ctx == this_cpu_ptr(percpu_dctx, cpu)
      res == IF SlotUsable(ctx)
               THEN ZSTD_decompressDCtx(tab[ctx.tab].slot[ctx.cpu].dctx, PAGE_SIZE,
                                        src, src_len)
               ELSE undef
      ret == res.r
      call == Call("ZSTD_decompressDCtx", PAGE_SIZE, src_len, ret)
  IN IF ZSTD_isError(ret) # 0
       THEN [ret |-> -EINVAL, dst |-> res.bytes, call |-> call]
       ELSE [ret |-> 0, dst |-> res.bytes, call |-> call]

\* -------------------------------------------------------------- actions
Init ==
  /\ wk = <<>>
  /\ rec = <<>>
  /\ tab = <<>>
  /\ percpu_dctx = NULL
  /\ handles = {}
  /\ ncreate = 0
  /\ last = [op |-> "none", arg |-> NULL, ret |-> NULL, pd0 |-> NULL,
             fail |-> [at |-> "none", cpu |-> 0]]
  /\ log = <<>>
  /\ vfree_kz \in {"release", "ignore"}
  /\ serving \in Tier
  /\ wbound \in [c : WkspSizes, d : WkspSizes]
  /\ pc = [t \in THREADS |-> "idle"]
  /\ tcpu = [t \in THREADS |-> 0]
  /\ tslot = [t \in THREADS |-> [tab |-> 0, cpu |-> 0]]
  /\ orig = NoPage
  /\ dst = <<>>
  /\ dst_len = 0
  /\ out = <<>>
  /\ cc = NoCall

Commit(m) ==
  /\ wk' = m.wk
  /\ rec' = m.rec
  /\ tab' = m.tab
  /\ percpu_dctx' = m.pd
  /\ log' = m.log

Create ==
  /\ ncreate < MaxCreate
  /\ \E p \in FailPoint :
       LET r == zcomp_zstd_create(Machine, p)
       IN /\ Commit(r.m)
          /\ handles' = IF r.ret # NULL THEN handles \cup {r.ret} ELSE handles
          /\ last' = [op |-> "create", arg |-> NULL, ret |-> r.ret,
                      pd0 |-> percpu_dctx, fail |-> p]
  /\ ncreate' = ncreate + 1
  /\ UNCHANGED <<vfree_kz, serving, wbound, io, threads>>

\* destroy is called with a handle create returned, once per handle, or
\* with NULL.
Destroy ==
  /\ \E h \in handles \cup {NULL} :
       /\ Commit(zcomp_zstd_destroy(Machine, h))
       /\ handles' = handles \ {h}
       /\ last' = [op |-> "destroy", arg |-> h, ret |-> NULL,
                   pd0 |-> percpu_dctx, fail |-> [at |-> "none", cpu |-> 0]]
  /\ UNCHANGED <<ncreate, vfree_kz, serving, wbound, io, threads>>

Next == Create \/ Destroy

Spec == Init /\ [][Next]_vars

\* ------------------------------------------------- concurrent decompress
\* zcomp_zstd_decompress, one step per line, run by several threads on an
\* instance whose creation succeeded.  get_cpu() and put_cpu() are commented
\* out (lines 204 and 207), so nothing in the function disables preemption:
\* the scheduler may interleave the threads freely and move a thread to
\* another CPU between any two steps.
EmptyMachine == [wk |-> <<>>, rec |-> <<>>, tab |-> <<>>, pd |-> NULL, log |-> <<>>]

NoFail == [at |-> "none", cpu |-> 0]

InitDecompress ==
  /\ vfree_kz \in {"release", "ignore"}
  /\ serving \in Tier
  /\ wbound \in [c : WkspSizes, d : WkspSizes]
  /\ LET r == zcomp_zstd_create(EmptyMachine, NoFail)
     IN /\ wk = r.m.wk
        /\ rec = r.m.rec
        /\ tab = r.m.tab
        /\ percpu_dctx = r.m.pd
        /\ log = r.m.log
        /\ handles = {r.ret}
        /\ last = [op |-> "create", arg |-> NULL, ret |-> r.ret, pd0 |-> NULL,
                   fail |-> NoFail]
  /\ ncreate = 1
  /\ pc = [t \in THREADS |-> "idle"]
  /\ tcpu \in [THREADS -> CPUS]
  /\ tslot = [t \in THREADS |-> [tab |-> 0, cpu |-> 0]]
  /\ orig = NoPage
  /\ dst = <<>>
  /\ dst_len = 0
  /\ out = <<>>
  /\ cc = NoCall

NoSlot == [tab |-> NULL, cpu |-> 0]

Enter(t) ==
  /\ pc[t] = "idle"
  /\ handles # {}
  /\ pc' = [pc EXCEPT ![t] = "select"]
  /\ UNCHANGED <<lifecycle, vfree_kz, serving, wbound, io, tcpu, tslot>>

SelectSlot(t) ==
  /\ pc[t] = "select"
  /\ tslot' = [tslot EXCEPT ![t] = this_cpu_ptr(percpu_dctx, tcpu[t])]
  /\ pc' = [pc EXCEPT ![t] = "call"]
  /\ UNCHANGED <<lifecycle, vfree_kz, serving, wbound, io, tcpu>>

CodecBegin(t) ==
  /\ pc[t] = "call"
  /\ pc' = [pc EXCEPT ![t] = "codec"]
  /\ UNCHANGED <<lifecycle, vfree_kz, serving, wbound, io, tcpu, tslot>>

CodecEnd(t) ==
  /\ pc[t] = "codec"
  /\ pc' = [pc EXCEPT ![t] = "idle"]
  /\ tslot' = [tslot EXCEPT ![t] = NoSlot]
  /\ UNCHANGED <<lifecycle, vfree_kz, serving, wbound, io, tcpu>>

\* The scheduler moves a preemptible thread to another CPU.
Migrate(t) ==
  /\ \E c \in CPUS \ {tcpu[t]} : tcpu' = [tcpu EXCEPT ![t] = c]
  /\ UNCHANGED <<lifecycle, vfree_kz, serving, wbound, io, pc, tslot>>

NextDecompress ==
  \E t \in THREADS :
    Enter(t) \/ SelectSlot(t) \/ CodecBegin(t) \/ CodecEnd(t) \/ Migrate(t)

SpecDecompress == InitDecompress /\ [][NextDecompress]_vars

\* ------------------------------------- compress and decompress in a run
\* The run starts when the first create has returned a handle.  Further
\* creates happen as in Spec; between them the caller compresses pages
\* through an Active instance and decompresses what the last compress
\* produced, whole or cut short.  The workspace bounds are those of one
\* codec library: compress and decompress never read a workspace size.
InitCodec ==
  /\ vfree_kz \in {"release", "ignore"}
  /\ serving \in Tier
  /\ wbound = [c |-> 2, d |-> 1]
  /\ LET r == zcomp_zstd_create(EmptyMachine, NoFail)
     IN /\ wk = r.m.wk
        /\ rec = r.m.rec
        /\ tab = r.m.tab
        /\ percpu_dctx = r.m.pd
        /\ log = r.m.log
        /\ handles = {r.ret}
        /\ last = [op |-> "create", arg |-> NULL, ret |-> r.ret, pd0 |-> NULL,
                   fail |-> NoFail]
  /\ ncreate = 1
  /\ pc = [t \in THREADS |-> "idle"]
  /\ tcpu = [t \in THREADS |-> 1]
  /\ tslot = [t \in THREADS |-> NoSlot]
  /\ orig = NoPage
  /\ dst = <<>>
  /\ dst_len = 0
  /\ out = <<>>
  /\ cc = NoCall

Compress ==
  /\ \E h \in handles, page \in Pages, internal \in BOOLEAN :
       LET r == zcomp_zstd_compress(page, dst, dst_len, h, internal)
       IN /\ dst' = r.dst
          /\ dst_len' = r.dst_len
          /\ cc' = r.call
          /\ orig' = IF r.ret = 0 THEN [page |-> page, h |-> h] ELSE NoPage
          /\ last' = [op |-> "compress", arg |-> h, ret |-> r.ret,
                      pd0 |-> percpu_dctx, fail |-> NoFail]
  /\ out' = <<>>
  /\ UNCHANGED <<wk, rec, tab, percpu_dctx, handles, ncreate, log>>
  /\ UNCHANGED <<vfree_kz, serving, wbound, threads>>

SrcLens == {n \in {dst_len - 1, dst_len} : n >= 0}

Decompress ==
  /\ handles # {}
  /\ \E cpu \in CPUS, src_len \in SrcLens : \E undef \in Outcomes(cpu) :
       LET r == zcomp_zstd_decompress(dst, src_len, cpu, undef)
       IN /\ out' = r.dst
          /\ cc' = r.call
          /\ last' = [op |-> "decompress", arg |-> cpu, ret |-> r.ret,
                      pd0 |-> percpu_dctx, fail |-> NoFail]
  /\ UNCHANGED <<wk, rec, tab, percpu_dctx, handles, ncreate, log>>
  /\ UNCHANGED <<orig, dst, dst_len, vfree_kz, serving, wbound, threads>>

\* The codec call through a pointer to no slot or to freed memory may
\* also fault: the call never returns, the calling task is killed.
DecompressFault ==
  /\ handles # {}
  /\ \E cpu \in CPUS, src_len \in SrcLens :
       /\ ~SlotUsable(this_cpu_ptr(percpu_dctx, cpu))
       /\ cc' = Call("ZSTD_decompressDCtx", PAGE_SIZE, src_len, 0)
       /\ last' = [op |-> "fault", arg |-> cpu, ret |-> 0,
                   pd0 |-> percpu_dctx, fail |-> NoFail]
  /\ UNCHANGED <<wk, rec, tab, percpu_dctx, handles, ncreate, log, out>>
  /\ UNCHANGED <<orig, dst, dst_len, vfree_kz, serving, wbound, threads>>

NextCodec == Create \/ Compress \/ Decompress \/ DecompressFault

SpecCodec == InitCodec /\ [][NextCodec]_vars

\* ------------------------------------------------------ reading the log
Idx == DOMAIN log

Allocated == {i \in Idx : log[i].ev = "alloc" /\ log[i].id # NULL}

Live(obj, id) ==
  IF obj = "ctx" THEN rec[id].live
  ELSE IF obj = "table" THEN tab[id].live
  ELSE wk[id].live

Returned(fn, ret) == {i \in Idx : log[i].ev = "ret" /\ log[i].obj = fn /\ log[i].id = ret}

SlotValid(t, c) ==
  /\ tab[t].slot[c].dwksp # NULL
  /\ wk[tab[t].slot[c].dwksp].live
  /\ tab[t].slot[c].dctx = "ok"

TableComplete(t) == tab[t].live /\ \A c \in CPUS : SlotValid(t, c)

Active(h) == h \in handles

CreateReturned == last.op = "create"
DestroyReturned == last.op = "destroy"

\* ================================================================ claims

\* C1: over any sequence of create and destroy calls with failures injected
\* at any step, no workspace is freed more than once.
C1_FreedAtMostOnce == \A p \in DOMAIN wk : wk[p].nfree <= 1

\* C2: when create_percpu fails at the slot of CPU k, on return no workspace
\* of slots 0..k is allocated, the table has been freed and percpu_dctx is
\* NULL.
C2_RollbackAtomic ==
  (CreateReturned /\ last.fail.at \in {"dwksp", "dctx"}) =>
    /\ percpu_dctx = NULL
    /\ \A i \in Allocated :
         log[i].obj \in {"table", "dwksp"} => ~Live(log[i].obj, log[i].id)

\* C3: when create returns NULL, everything the call allocated (facade
\* record, compression workspace, table, slot workspaces) has been freed.
C3_FailedCreateFreesAll ==
  (CreateReturned /\ last.ret = NULL) =>
    \A i \in Allocated : ~Live(log[i].obj, log[i].id)

\* C4: in every reachable state percpu_dctx is NULL or refers to a table
\* with a valid slot for every possible CPU, so a decompress on an Active
\* instance always selects a usable slot.
C4_TableAbsentOrComplete ==
  /\ percpu_dctx = NULL \/ TableComplete(percpu_dctx)
  /\ (\E h \in handles : Active(h)) =>
       \A c \in CPUS : SlotUsable(this_cpu_ptr(percpu_dctx, c))

\* C5: a decompress call runs from slot selection to the codec's return on
\* the CPU whose slot it selected, and no two calls in flight use the same
\* slot's handle.
C5_SlotExclusive ==
  /\ \A t \in THREADS : pc[t] \in {"call", "codec"} => tslot[t].cpu = tcpu[t]
  /\ \A t, u \in THREADS :
       (t # u /\ pc[t] = "codec" /\ pc[u] = "codec") => tslot[t] # tslot[u]

\* C6: create returns a handle iff the compression context and every
\* per-CPU slot were initialized; a failed create returns NULL and leaves no
\* instance of its own Active.
CompInitOk == Returned("zstd_comp_init", 0) # {}
AllSlotsOk ==
  /\ Returned("zcomp_zstd_create_percpu", 0) # {}
  /\ Cardinality(Returned("zstd_decomp_init", 0)) = NCPU

C6_HandleIffBothSucceed ==
  CreateReturned =>
    /\ last.ret # NULL <=> (CompInitOk /\ AllSlotsOk)
    /\ last.ret # NULL => Active(last.ret)
    /\ last.ret = NULL =>
         \A i \in Allocated : log[i].obj = "ctx" => ~Active(log[i].id)

C6_Witness == CreateReturned /\ last.ret = NULL /\ CompInitOk /\ handles # {}

\* C7: after a successful create every possible CPU has a slot with an
\* allocated workspace and a constructed handle, and different CPUs have
\* different workspaces (a handle lives inside its workspace, so different
\* workspaces carry different handles).
C7_PoolComplete ==
  (CreateReturned /\ last.ret # NULL) =>
    /\ percpu_dctx # NULL
    /\ TableComplete(percpu_dctx)
    /\ \A c, d \in CPUS :
         c # d => tab[percpu_dctx].slot[c].dwksp # tab[percpu_dctx].slot[d].dwksp

C7_Witness == CreateReturned /\ last.ret # NULL /\ Len(tab) > 1

\* C8: a destroy that finds the table frees every CPU's slot workspace, then
\* the table, then clears percpu_dctx; afterwards no slot workspace and no
\* table is allocated, and the next create builds a fresh complete table.
FreedSlotBefore(t, c, j) ==
  \/ tab[t].slot[c].dwksp = NULL
  \/ \E i \in Idx : i < j /\ log[i].ev = "free" /\ log[i].id = tab[t].slot[c].dwksp
                     /\ log[i].obj = "dwksp"

C8_DestroyFreesPool ==
  /\ (DestroyReturned /\ last.pd0 # NULL) =>
       /\ \E j, k \in Idx :
            /\ j < k
            /\ log[j].ev = "free" /\ log[j].obj = "table" /\ log[j].id = last.pd0
            /\ log[k].ev = "store" /\ log[k].id = NULL
            /\ \A c \in CPUS : FreedSlotBefore(last.pd0, c, j)
       /\ percpu_dctx = NULL
       /\ \A t \in DOMAIN tab : ~tab[t].live
       /\ \A p \in DOMAIN wk : wk[p].use = "dwksp" => ~wk[p].live
  /\ (CreateReturned /\ last.ret # NULL /\ last.pd0 = NULL) =>
       /\ \E i \in Allocated : log[i].obj = "table" /\ log[i].id = percpu_dctx
       /\ TableComplete(percpu_dctx)

\* C9: a destroy that finds percpu_dctx NULL touches no slot and no table
\* and frees nothing that was already freed.
C9_DestroyWithoutPool ==
  (DestroyReturned /\ last.pd0 = NULL) =>
    /\ \A i \in Idx : log[i].obj \notin {"dwksp", "table", "percpu_dctx"}
    /\ \A i \in Idx : log[i].hit # "stale"
    /\ percpu_dctx = NULL

C9_Witness ==
  /\ DestroyReturned /\ last.pd0 = NULL /\ last.arg # NULL
  /\ \E t \in DOMAIN tab : ~tab[t].live

\* C10: once every handle create returned has been destroyed, nothing is
\* allocated and percpu_dctx is NULL; and a create never makes an earlier
\* table unreachable.
C10_NoLeak ==
  /\ \A t \in DOMAIN tab : tab[t].live => percpu_dctx = t
  /\ handles = {} =>
       /\ percpu_dctx = NULL
       /\ \A r \in DOMAIN rec : ~rec[r].live
       /\ \A t \in DOMAIN tab : ~tab[t].live
       /\ \A p \in DOMAIN wk : ~wk[p].live

CompressReturned == last.op = "compress"
DecompressReturned == last.op = "decompress"

\* What a returned call shows of its codec call.
ReturnMatchesCodec ==
  /\ CompressReturned =>
       /\ (last.ret = 0) <=> (ZSTD_isError(cc.r) = 0)
       /\ cc.calls = 1
       /\ last.ret = 0 => dst_len = cc.r
  /\ DecompressReturned =>
       /\ (last.ret = 0) <=> (ZSTD_isError(cc.r) = 0)
       /\ last.ret \in {0, -EINVAL}
       /\ cc.calls = 1

\* A step that is a compress call returning non-zero leaves *dst_len alone.
LengthKeptOnError ==
  (last'.op = "compress" /\ last'.ret # 0) => dst_len' = dst_len

\* C11: compress and decompress return zero exactly when the one codec
\* call they make succeeds; a codec error is returned as a non-zero value,
\* -EINVAL from decompress; *dst_len is written only when compress
\* succeeds, and then holds the codec's length.
C11_ZeroIffCodecSucceeds == []ReturnMatchesCodec /\ [][LengthKeptOnError]_vars

C11_Witness == CompressReturned /\ last.ret # 0 /\ dst_len > 0

\* C12: after a successful compress the reported length is the codec's
\* and at most two pages; the codec was given one page of input and an
\* output capacity of exactly two pages.
C12_LengthWithinTwoPages ==
  (CompressReturned /\ last.ret = 0) =>
    /\ dst_len <= 2 * PAGE_SIZE
    /\ dst_len = cc.r
    /\ Len(dst) = dst_len
    /\ cc.cap = 2 * PAGE_SIZE
    /\ cc.srcSize = PAGE_SIZE

C12_Witness == CompressReturned /\ last.ret = 0 /\ dst_len > PAGE_SIZE

\* C13: decompressing, on any CPU, all the bytes a successful compress
\* produced on an instance that is still Active succeeds and yields the
\* original page.
C13_RoundTrip ==
  (last.op \in {"decompress", "fault"} /\ Active(orig.h) /\ cc.srcSize = dst_len) =>
    (DecompressReturned /\ last.ret = 0 /\ out = orig.page)

\* C14 (as stated): every workspace ever allocated has the same size, the
\* compression workspace and the slot workspaces alike.
C14_OneSizeForAll == \A p, q \in DOMAIN wk : wk[p].size = wk[q].size

\* C14 (amended): all compression workspaces have one size and all slot
\* workspaces have one size, in every creation cycle, whatever fails and on
\* whichever CPU; the two sizes come from different bounds.
C14_OneSizePerKind ==
  \A p, q \in DOMAIN wk : wk[p].use = wk[q].use => wk[p].size = wk[q].size

C14_Witness ==
  /\ Cardinality({p \in DOMAIN wk : wk[p].use = "cwksp"}) > 1
  /\ Cardinality({p \in DOMAIN wk : wk[p].use = "dwksp"}) > NCPU
  /\ \E p, q \in DOMAIN wk : wk[p].size # wk[q].size

\* C15: in a create call the compression context is complete before the
\* table is allocated; when its initialization fails, no table and no slot
\* workspace is allocated and percpu_dctx keeps its value.
PoolEvent(i) == log[i].obj \in {"table", "dwksp", "dctx", "percpu_dctx"}

C15_CompressionContextFirst ==
  CreateReturned =>
    /\ \A j \in Idx : PoolEvent(j) => \E i \in Returned("zstd_comp_init", 0) : i < j
    /\ ~CompInitOk => (percpu_dctx = last.pd0 /\ \A j \in Idx : ~PoolEvent(j))

C15_Witness ==
  CreateReturned /\ last.fail.at \in {"cwksp", "cctx"} /\ last.pd0 # NULL

IsTry(i, fn, hit) ==
  i \in Idx /\ log[i].ev = "try" /\ log[i].fn = fn /\ log[i].hit = hit

IsWkspAlloc(i) == log[i].ev = "alloc" /\ log[i].obj \in {"cwksp", "dwksp"}

C17_TieredAllocation ==
  \A i \in Idx :
    /\ (log[i].ev = "try" /\ log[i].fn = "vmalloc") => IsTry(i - 1, "kzalloc", "fail")
    /\ (log[i].ev = "try" /\ log[i].fn = "kzalloc") =>
         ~(i - 1 \in Idx /\ log[i - 1].ev = "try")
    /\ IsTry(i, "kzalloc", "ok") =>
         (i + 1 \in Idx /\ IsWkspAlloc(i + 1) /\ log[i + 1].id # NULL)
    /\ IsTry(i, "vmalloc", "ok") =>
         (i + 1 \in Idx /\ IsWkspAlloc(i + 1) /\ log[i + 1].id # NULL)
    /\ IsTry(i, "vmalloc", "fail") =>
         (i + 1 \in Idx /\ IsWkspAlloc(i + 1) /\ log[i + 1].id = NULL)
    /\ IsWkspAlloc(i) =>
         /\ log[i].id # NULL => (wk[log[i].id].zeroed
                                  /\ IsTry(i - 1, wk[log[i].id].tier, "ok"))
         /\ log[i].id = NULL => (IsTry(i - 1, "vmalloc", "fail")
                                  /\ IsTry(i - 2, "kzalloc", "fail"))
    /\ log[i].ev = "init" =>
         (log[i].id # NULL /\ i - 1 \in Idx /\ IsWkspAlloc(i - 1)
                           /\ log[i - 1].id = log[i].id)

C17_Witness ==
  /\ \E i \in Idx : IsTry(i, "vmalloc", "ok")
  /\ \E i \in Idx : IsTry(i, "vmalloc", "fail")

\* C18: a create that fails changes nothing that existed before the call:
\* percpu_dctx keeps its value and nothing allocated earlier is freed.
C18_FailedCreateIsLocal ==
  (CreateReturned /\ last.ret = NULL) =>
    /\ percpu_dctx = last.pd0
    /\ \A i \in Idx : log[i].ev = "free" =>
         \E j \in Allocated : j < i /\ log[j].obj = log[i].obj /\ log[j].id = log[i].id

\* C19: no workspace that came from kzalloc is released through vfree.
C19_DeallocatorMatchesTier ==
  \A i \in Idx :
    (log[i].ev = "free" /\ log[i].fn = "vfree") => wk[log[i].id].tier # "kzalloc"

====
